---- MODULE Spec2Model ----
(***************************************************************************)
(* Model of src/compare_mapping.py: the version-diff matching engine.      *)
(* Similarities are fixed-point numbers in units of 1/10000 (One = 1.0).   *)
(* Units are identified by their 1-based position in units_old/units_new.  *)
(***************************************************************************)
EXTENDS Integers, Sequences, FiniteSets, TLC

\* ----------------------------------------------------------------- bounds
\* len(units_old) + len(units_new) is at most MaxUnits.
MaxUnits == 4
\* an article given to extract_units has at most MaxClauses clauses, each
\* with at most MaxPoints points
MaxClauses == 2
MaxPoints == 1

\* ------------------------------------------------------ program constants
One == 10000
MATCH_THRESHOLD == 6000
SPLIT_UNIT_THRESH == 3500
SPLIT_SUM_THRESH == 7500
MERGE_UNIT_THRESH == 3500
MERGE_SUM_THRESH == 7500
\* None, for unit_2013 / unit_2024 of deleted / added entries
Null == 0

\* Similarity scores a cell of the matrix is drawn from: none, exactly the
\* split/merge unit threshold, a score between it and the default match
\* threshold that does not survive rounding to 3 decimals, and 1.0.
Levels == {0, 3500, 4004, One}
\* match_threshold arguments tried
Thresholds == {4004, MATCH_THRESHOLD}

VARIABLES
  n_old,               \* len(units_old)
  n_new,               \* len(units_new)
  sim_matrix,          \* sim_matrix[i][j], i in 1..n_old, j in 1..n_new
  same_text,           \* same_text[i][j]: normalize_for_compare texts are equal
  match_threshold,     \* argument of generate_mapping
  use_hungarian,       \* argument of generate_mapping
  HUNGARIAN_AVAILABLE, \* module flag set at import time
  pc,                  \* position inside generate_mapping
  branch,              \* branch global_optimal_matching took
  candidate_pairs,     \* sequence of <<i, j, s>>
  matched_pairs,       \* sequence of <<i, j, s>>
  splits,              \* old index -> sequence of <<new index, s>>
  merges,              \* new index -> sequence of <<old index, s>>
  mapping,             \* the changelog: sequence of entries
  summary,             \* strategy line of the run summary
  article,             \* argument of extract_units
  units,               \* list returned by extract_units
  xpc                  \* position of the extract_units call

vars == <<n_old, n_new, sim_matrix, same_text, match_threshold, use_hungarian,
          HUNGARIAN_AVAILABLE, pc, branch, candidate_pairs, matched_pairs,
          splits, merges, mapping, summary, article, units, xpc>>

\* the variables of a call of extract_units
extract_vars == <<article, units, xpc>>

inputs == <<n_old, n_new, sim_matrix, same_text, match_threshold,
            use_hungarian, HUNGARIAN_AVAILABLE>>

OldIdx == 1..n_old
NewIdx == 1..n_new

\* ---------------------------------------------------------------- helpers
Range(s) == {s[k] : k \in DOMAIN s}

Max(a, b) == IF a >= b THEN a ELSE b

RECURSIVE SumSeq(_, _)
\* sum(s for (_, s) in sims): the sum of component k of the tuples of seq
SumSeq(seq, k) ==
  IF seq = <<>> THEN 0 ELSE seq[1][k] + SumSeq(Tail(seq), k)

\* list.sort(key=lambda x: x[k], reverse=True): stable, descending.
InsertDesc(sorted, x, k) ==
  LET m == Cardinality({n \in DOMAIN sorted : sorted[n][k] >= x[k]})
  IN  SubSeq(sorted, 1, m) \o <<x>> \o SubSeq(sorted, m + 1, Len(sorted))

RECURSIVE SortDescBy(_, _)
SortDescBy(seq, k) ==
  IF seq = <<>> THEN <<>>
  ELSE InsertDesc(SortDescBy(SubSeq(seq, 1, Len(seq) - 1), k), seq[Len(seq)], k)

\* round(float(s), 3) on a score in units of 1/10000
Round3(s) == ((s + 5) \div 10) * 10

\* ------------------------------------------------- similarity matrix input
\* Equal normalised texts have equal TF-IDF vectors: cosine 1, or 0 when the
\* text holds no token (then every cosine with it is 0); two units equal to
\* the same unit are equal to each other and have the same scores.
ValidTexts(no, nn, S, E) ==
  /\ \A i \in 1..no, j \in 1..nn :
       E[i][j] =>
         \/ S[i][j] = One
         \/ /\ \A jj \in 1..nn : S[i][jj] = 0
            /\ \A ii \in 1..no : S[ii][j] = 0
  /\ \A i \in 1..no, j1 \in 1..nn, j2 \in 1..nn :
       (E[i][j1] /\ E[i][j2]) =>
         \A ii \in 1..no : S[ii][j1] = S[ii][j2] /\ E[ii][j1] = E[ii][j2]
  /\ \A j \in 1..nn, i1 \in 1..no, i2 \in 1..no :
       (E[i1][j] /\ E[i2][j]) =>
         \A jj \in 1..nn : S[i1][jj] = S[i2][jj] /\ E[i1][jj] = E[i2][jj]

\* ------------------------------------------------ global_optimal_matching
\* cost = ones((M, M)); cost[:n_old, :n_new] = 1.0 - sim_matrix
Cost(S, no, nn, r, c) ==
  IF r <= no /\ c <= nn THEN One - S[r][c] ELSE One

Assignments(M) ==
  {p \in [1..M -> 1..M] : \A a \in 1..M, b \in 1..M : p[a] = p[b] => a = b}

RECURSIVE TotalCost(_, _, _, _, _)
TotalCost(S, no, nn, p, r) ==
  IF r = 0 THEN 0 ELSE Cost(S, no, nn, r, p[r]) + TotalCost(S, no, nn, p, r - 1)

\* linear_sum_assignment(cost): any assignment of minimum total cost
OptimalAssignments(S, no, nn) ==
  LET M == Max(no, nn)
      A == Assignments(M)
      costs == {TotalCost(S, no, nn, p, M) : p \in A}
      best == CHOOSE c \in costs : \A d \in costs : c <= d
  IN  {p \in A : TotalCost(S, no, nn, p, M) = best}

RECURSIVE HungarianPairsFrom(_, _, _, _, _)
\* for r, c in zip(row_ind, col_ind): keep the pairs outside the padding
HungarianPairsFrom(S, no, nn, p, r) ==
  IF r > Max(no, nn) THEN <<>>
  ELSE (IF r <= no /\ p[r] <= nn THEN << <<r, p[r], S[r][p[r]]>> >> ELSE <<>>)
       \o HungarianPairsFrom(S, no, nn, p, r + 1)

\* A solver branch that drops the pairs under the default match threshold.
HungarianPairsThresholded(S, no, nn, p) ==
  SelectSeq(HungarianPairsFrom(S, no, nn, p, 1),
            LAMBDA x : x[3] >= MATCH_THRESHOLD)

HungarianPairs(S, no, nn, p) == HungarianPairsFrom(S, no, nn, p, 1)

\* np.transpose(np.nonzero(sim_matrix >= 0.0)): the cells in row-major order
RECURSIVE CellsFrom(_, _, _, _)
CellsFrom(S, no, nn, k) ==
  IF k > no * nn THEN <<>>
  ELSE LET r == ((k - 1) \div nn) + 1
           c == ((k - 1) % nn) + 1
       IN  (IF S[r][c] >= 0 THEN << <<r, c, S[r][c]>> >> ELSE <<>>)
           \o CellsFrom(S, no, nn, k + 1)

RECURSIVE GreedyLoop(_, _, _, _)
GreedyLoop(cand, mo, mn, pairs) ==
  IF cand = <<>> THEN pairs
  ELSE LET x == Head(cand)
       IN  IF x[1] \in mo \/ x[2] \in mn
           THEN GreedyLoop(Tail(cand), mo, mn, pairs)
           ELSE GreedyLoop(Tail(cand), mo \cup {x[1]}, mn \cup {x[2]},
                           Append(pairs, x))

\* A greedy branch that lost its descending sort (cells in matrix order).
GreedyPairsUnsorted(S, no, nn) ==
  GreedyLoop(CellsFrom(S, no, nn, 1), {}, {}, <<>>)

\* A greedy branch that lost its claimed-row / claimed-column test.
GreedyPairsAllCells(S, no, nn) == SortDescBy(CellsFrom(S, no, nn, 1), 3)

GreedyPairs(S, no, nn) ==
  GreedyLoop(SortDescBy(CellsFrom(S, no, nn, 1), 3), {}, {}, <<>>)

\* which branch runs
TakesHungarian(useH, avail) == useH /\ avail

global_optimal_matching(S, no, nn, useH, avail, p) ==
  IF TakesHungarian(useH, avail) THEN HungarianPairs(S, no, nn, p)
  ELSE GreedyPairs(S, no, nn)


\* ------------------------------------------------ generate_mapping: filter
RECURSIVE PostFilterLoop(_, _, _, _, _)
PostFilterLoop(cands, thr, mo, mn, acc) ==
  IF cands = <<>> THEN acc
  ELSE LET x == Head(cands)
       IN  IF x[1] \in mo \/ x[2] \in mn
           THEN PostFilterLoop(Tail(cands), thr, mo, mn, acc)
           ELSE IF x[3] >= thr
                THEN PostFilterLoop(Tail(cands), thr, mo \cup {x[1]},
                                    mn \cup {x[2]}, Append(acc, x))
                ELSE PostFilterLoop(Tail(cands), thr, mo, mn, acc)

\* A filter that forgot the threshold test.
PostFilterNoThreshold(cands, thr) == PostFilterLoop(cands, 0, {}, {}, <<>>)

\* Keep only pairs >= match_threshold (ensuring one-to-one)
PostFilter(cands, thr) == PostFilterLoop(cands, thr, {}, {}, <<>>)

\* candidate_pairs after the call and the descending sort
CandidatePairs(S, no, nn, useH, avail, p) ==
  SortDescBy(global_optimal_matching(S, no, nn, useH, avail, p), 3)

\* A pipeline that lost its one-to-one enforcement: the greedy branch keeps
\* every cell and the filter keeps every pair reaching the threshold.
AcceptedPairsUnenforced(S, no, nn, useH, avail, p, thr) ==
  LET raw == IF TakesHungarian(useH, avail) THEN HungarianPairs(S, no, nn, p)
             ELSE SortDescBy(CellsFrom(S, no, nn, 1), 3)
  IN  SelectSeq(SortDescBy(raw, 3), LAMBDA x : x[3] >= thr)

\* matched_pairs: solver, sort, filter
AcceptedPairs(S, no, nn, useH, avail, p, thr) ==
  PostFilter(CandidatePairs(S, no, nn, useH, avail, p), thr)

\* ------------------------------------------------ detect_splits_and_merges
SplitSims(S, nn, i) ==
  SortDescBy(SelectSeq([j \in 1..nn |-> <<j, S[i][j]>>],
                       LAMBDA x : x[2] >= SPLIT_UNIT_THRESH), 2)

DetectSplits(S, no, nn) ==
  [i \in {ii \in 1..no : /\ Len(SplitSims(S, nn, ii)) > 1
                         /\ SumSeq(SplitSims(S, nn, ii), 2) >= SPLIT_SUM_THRESH}
     |-> SplitSims(S, nn, i)]

MergeSims(S, no, j) ==
  SortDescBy(SelectSeq([i \in 1..no |-> <<i, S[i][j]>>],
                       LAMBDA x : x[2] >= MERGE_UNIT_THRESH), 2)

DetectMerges(S, no, nn) ==
  [j \in {jj \in 1..nn : /\ Len(MergeSims(S, no, jj)) > 1
                         /\ SumSeq(MergeSims(S, no, jj), 2) >= MERGE_SUM_THRESH}
     |-> MergeSims(S, no, j)]

\* --------------------------------------------- generate_mapping: synthesis
\* the literal "" of before_change / after_change
EmptyText == <<>>

\* normalize_for_output(u.get("text", "")) of unit k of one side, kept
\* symbolic: the text itself plays no part in matching
OutText(side, k) == <<side, k>>

Entry(ct, o, n, s) ==
  [change_type |-> ct, unit_2013 |-> o, unit_2024 |-> n, similarity |-> s,
   before_change |-> IF o = Null THEN EmptyText ELSE OutText("old", o),
   after_change |-> IF n = Null THEN EmptyText ELSE OutText("new", n)]

\* the indices 1..n that lie in set T, ascending
AscSeq(n, T) == SelectSeq([k \in 1..n |-> k], LAMBDA k : k \in T)

\* 1) matched 1->1 => modified (skip unchanged)
Phase1Entries(mp, E) ==
  LET kept == SelectSeq(mp, LAMBDA x : ~E[x[1]][x[2]])
  IN  [k \in DOMAIN kept |->
         Entry("modified", kept[k][1], kept[k][2], Round3(kept[k][3]))]

\* 2) splits -> deleted (old unit)
Phase2Entries(no, sp) ==
  LET olds == AscSeq(no, DOMAIN sp)
  IN  [k \in DOMAIN olds |-> Entry("deleted", olds[k], Null, 0)]

\* 3) merges -> added (new unit)
Phase3Entries(nn, mg) ==
  LET news == AscSeq(nn, DOMAIN mg)
  IN  [k \in DOMAIN news |-> Entry("added", Null, news[k], 0)]

\* Block 4 that keeps the merge-leg branch and lost the final append.
Phase4EntriesOnlyMergeLegs(no, mp, sp, mg) ==
  LET matched_old_idx == {x[1] : x \in Range(mp)}
      split_old_indices == DOMAIN sp
      merge_old_indices == {x[1] : x \in UNION {Range(mg[j]) : j \in DOMAIN mg}}
      olds == AscSeq(no, merge_old_indices
                         \ (matched_old_idx \cup split_old_indices))
  IN  [k \in DOMAIN olds |-> Entry("deleted", olds[k], Null, 0)]

\* Block 4 without the test that skips the split sources.
Phase4EntriesNoSplitSkip(no, mp, sp, mg) ==
  LET matched_old_idx == {x[1] : x \in Range(mp)}
      olds == AscSeq(no, (1..no) \ matched_old_idx)
  IN  [k \in DOMAIN olds |-> Entry("deleted", olds[k], Null, 0)]

\* 4) deleted: old units not matched and not already handled by splits
\*    (a merge leg and a plain unmatched unit get the same entry)
Phase4Entries(no, mp, sp, mg) ==
  LET matched_old_idx == {x[1] : x \in Range(mp)}
      split_old_indices == DOMAIN sp
      olds == AscSeq(no, (1..no) \ (matched_old_idx \cup split_old_indices))
  IN  [k \in DOMAIN olds |-> Entry("deleted", olds[k], Null, 0)]

\* Block 5 without the test that skips the pieces of a split.
Phase5EntriesNoSplitSkip(nn, mp, sp, mg) ==
  LET matched_new_idx == {x[2] : x \in Range(mp)}
      merge_new_indices == DOMAIN mg
      news == AscSeq(nn, (1..nn) \ (matched_new_idx \cup merge_new_indices))
  IN  [k \in DOMAIN news |-> Entry("added", Null, news[k], 0)]

\* 5) added: new units not matched, not merge targets, not pieces of a split
Phase5Entries(nn, mp, sp, mg) ==
  LET matched_new_idx == {x[2] : x \in Range(mp)}
      merge_new_indices == DOMAIN mg
      split_new_indices == {x[1] : x \in UNION {Range(sp[i]) : i \in DOMAIN sp}}
      news == AscSeq(nn, (1..nn) \ (matched_new_idx \cup merge_new_indices
                                    \cup split_new_indices))
  IN  [k \in DOMAIN news |-> Entry("added", Null, news[k], 0)]

\* the strategy line printed at the end of the run
SummaryLine(useH, avail) == IF avail THEN "hungarian" ELSE "greedy"

\* ---------------------------------------------------------- extract_units
\* full_text values: the key missing, "", " ", "a" and " a"
Strings == {<<>>, <<" ">>, <<"a">>, <<" ", "a">>}
Absent == [has |-> FALSE, s |-> <<>>]
FullTexts == {Absent} \cup {[has |-> TRUE, s |-> t] : t \in Strings}

SeqsUpTo(S, n) == UNION {[1..k -> S] : k \in 0..n}

PointsIn == [full_text : FullTexts]
ClausesIn == [full_text : FullTexts, points : SeqsUpTo(PointsIn, MaxPoints)]
Articles == [full_text : FullTexts, clauses : SeqsUpTo(ClausesIn, MaxClauses)]

\* truth value of x.get("full_text"): None and "" are false
Truthy(ft) == ft.has /\ ft.s # <<>>

\* a unit; clause_id and point_id are the positions in the article, None
\* is Null (article_id and article_number are the same for all units)
Unit(c, p, ft) == [clause_id |-> c, point_id |-> p, text |-> ft.s]

RECURSIVE PointUnits(_, _, _)
\* for point in clause.get("points", []), from position k on
PointUnits(c, points, k) ==
  IF k > Len(points) THEN <<>>
  ELSE (IF Truthy(points[k].full_text)
        THEN <<Unit(c, k, points[k].full_text)>> ELSE <<>>)
       \o PointUnits(c, points, k + 1)

RECURSIVE ClauseUnits(_, _)
\* for clause in article.get("clauses", []), from position c on
ClauseUnits(clauses, c) ==
  IF c > Len(clauses) THEN <<>>
  ELSE (IF Truthy(clauses[c].full_text)
        THEN <<Unit(c, Null, clauses[c].full_text)>> ELSE <<>>)
       \o PointUnits(c, clauses[c].points, 1)
       \o ClauseUnits(clauses, c + 1)

extract_units(a) ==
  (IF Truthy(a.full_text) THEN <<Unit(Null, Null, a.full_text)>> ELSE <<>>)
  \o ClauseUnits(a.clauses, 1)

\* ------------------------------------------------------------------- Init
Init ==
  /\ n_old \in 0..MaxUnits
  /\ n_new \in 0..(MaxUnits - n_old)
  /\ sim_matrix \in [1..n_old -> [1..n_new -> Levels]]
  /\ same_text \in [1..n_old -> [1..n_new -> BOOLEAN]]
  /\ ValidTexts(n_old, n_new, sim_matrix, same_text)
  /\ match_threshold \in Thresholds
  /\ use_hungarian \in BOOLEAN
  /\ HUNGARIAN_AVAILABLE \in BOOLEAN
  /\ pc = "start"
  /\ branch = "none"
  /\ candidate_pairs = <<>>
  /\ matched_pairs = <<>>
  /\ splits = <<>>
  /\ merges = <<>>
  /\ mapping = <<>>
  /\ summary = "none"
  /\ article = [full_text |-> Absent, clauses |-> <<>>]
  /\ units = <<>>
  /\ xpc = "idle"

\* ---------------------------------------------------------------- actions
\* Edge case: no text in both files -> empty output, early return
EarlyReturn ==
  /\ pc = "start"
  /\ n_old = 0 /\ n_new = 0
  /\ mapping' = <<>>
  /\ pc' = "done"
  /\ UNCHANGED <<extract_vars, inputs, branch, candidate_pairs, matched_pairs, splits,
                 merges, summary>>

\* global matching, descending sort and threshold filter
Matching ==
  /\ pc = "start"
  /\ ~(n_old = 0 /\ n_new = 0)
  /\ \E p \in (IF TakesHungarian(use_hungarian, HUNGARIAN_AVAILABLE)
               THEN OptimalAssignments(sim_matrix, n_old, n_new)
               ELSE {<<>>}) :
       /\ candidate_pairs' = CandidatePairs(sim_matrix, n_old, n_new,
                               use_hungarian, HUNGARIAN_AVAILABLE, p)
       /\ matched_pairs' = AcceptedPairs(sim_matrix, n_old, n_new,
                             use_hungarian, HUNGARIAN_AVAILABLE, p,
                             match_threshold)
  /\ branch' = IF TakesHungarian(use_hungarian, HUNGARIAN_AVAILABLE)
               THEN "hungarian" ELSE "greedy"
  /\ pc' = "detect"
  /\ UNCHANGED <<extract_vars, inputs, splits, merges, mapping, summary>>

Detect ==
  /\ pc = "detect"
  /\ splits' = DetectSplits(sim_matrix, n_old, n_new)
  /\ merges' = DetectMerges(sim_matrix, n_old, n_new)
  /\ pc' = "p1"
  /\ UNCHANGED <<extract_vars, inputs, branch, candidate_pairs, matched_pairs, mapping,
                 summary>>

\* Residual deletions moved in front of the merge additions.
PhaseOrderSwapped == <<"p1", "p2", "p4", "p3", "p5", "summary">>

\* the order in which the blocks 1) .. 5) and the summary run
PhaseOrder == <<"p1", "p2", "p3", "p4", "p5", "summary">>

\* the block that follows block at
After(at) ==
  LET k == CHOOSE n \in DOMAIN PhaseOrder : PhaseOrder[n] = at
  IN  PhaseOrder[k + 1]

Emit(at, entries, next) ==
  /\ pc = at
  /\ mapping' = mapping \o entries
  /\ pc' = next
  /\ UNCHANGED <<extract_vars, inputs, branch, candidate_pairs, matched_pairs, splits,
                 merges, summary>>

Phase1 == Emit("p1", Phase1Entries(matched_pairs, same_text), After("p1"))
Phase2 == Emit("p2", Phase2Entries(n_old, splits), After("p2"))
Phase3 == Emit("p3", Phase3Entries(n_new, merges), After("p3"))
Phase4 == Emit("p4", Phase4Entries(n_old, matched_pairs, splits, merges),
               After("p4"))
Phase5 == Emit("p5", Phase5Entries(n_new, matched_pairs, splits, merges),
               After("p5"))

Summary ==
  /\ pc = "summary"
  /\ summary' = SummaryLine(use_hungarian, HUNGARIAN_AVAILABLE)
  /\ pc' = "done"
  /\ UNCHANGED <<extract_vars, inputs, branch, candidate_pairs, matched_pairs, splits,
                 merges, mapping>>

Next ==
  \/ EarlyReturn
  \/ Matching
  \/ Detect
  \/ Phase1
  \/ Phase2
  \/ Phase3
  \/ Phase4
  \/ Phase5
  \/ Summary

Spec == Init /\ [][Next]_vars

\* one call of extract_units on an arbitrary article, outside any run of
\* generate_mapping
InitExtract ==
  /\ article \in Articles
  /\ units = <<>>
  /\ xpc = "call"
  /\ n_old = 0
  /\ n_new = 0
  /\ sim_matrix = <<>>
  /\ same_text = <<>>
  /\ match_threshold = MATCH_THRESHOLD
  /\ use_hungarian = TRUE
  /\ HUNGARIAN_AVAILABLE = TRUE
  /\ pc = "idle"
  /\ branch = "none"
  /\ candidate_pairs = <<>>
  /\ matched_pairs = <<>>
  /\ splits = <<>>
  /\ merges = <<>>
  /\ mapping = <<>>
  /\ summary = "none"

ExtractUnits ==
  /\ xpc = "call"
  /\ units' = extract_units(article)
  /\ xpc' = "ret"
  /\ UNCHANGED <<article, inputs, pc, branch, candidate_pairs, matched_pairs,
                 splits, merges, mapping, summary>>

NextExtract == ExtractUnits

SpecExtract == InitExtract /\ [][NextExtract]_vars

TypeOK ==
  /\ xpc \in {"idle", "call", "ret"}
  /\ pc \in {"idle", "start", "detect", "p1", "p2", "p3", "p4", "p5", "summary", "done"}
  /\ branch \in {"none", "hungarian", "greedy"}
  /\ summary \in {"none", "hungarian", "greedy"}

\* ------------------------------------------------- changelog vocabulary
Entries(ct) == {k \in DOMAIN mapping : mapping[k].change_type = ct}

ModifiedOld(i) == {k \in Entries("modified") : mapping[k].unit_2013 = i}
DeletedOld(i) == {k \in Entries("deleted") : mapping[k].unit_2013 = i}
ModifiedNew(j) == {k \in Entries("modified") : mapping[k].unit_2024 = j}
AddedNew(j) == {k \in Entries("added") : mapping[k].unit_2024 = j}

AcceptedOld == {x[1] : x \in Range(matched_pairs)}
AcceptedNew == {x[2] : x \in Range(matched_pairs)}

\* matched to a unit with equal normalised text and mentioned by no entry
SilentOld(i) ==
  /\ \E x \in Range(matched_pairs) : x[1] = i /\ same_text[i][x[2]]
  /\ \A k \in DOMAIN mapping : mapping[k].unit_2013 # i

SilentNew(j) ==
  /\ \E x \in Range(matched_pairs) : x[2] = j /\ same_text[x[1]][j]
  /\ \A k \in DOMAIN mapping : mapping[k].unit_2024 # j

Count(b) == IF b THEN 1 ELSE 0

\* pairwise distinct old indices and pairwise distinct new indices
OneToOne(pairs) ==
  \A a \in DOMAIN pairs, b \in DOMAIN pairs :
    a # b => pairs[a][1] # pairs[b][1] /\ pairs[a][2] # pairs[b][2]

\* ---------------------------------------------------------------- claims
\* C1: for every similarity matrix, threshold and strategy, the accepted
\* matched_pairs never hold two pairs with the same old index nor two
\* pairs with the same new index.
C1_OneToOne == OneToOne(matched_pairs)

\* C1 witness: two pairs were accepted while a further cell reaching the
\* threshold was left out because its row or column was already claimed.
C1_Witness ==
  /\ pc = "done"
  /\ Len(matched_pairs) >= 2
  /\ \E i \in OldIdx, j \in NewIdx :
       /\ sim_matrix[i][j] >= match_threshold
       /\ <<i, j, sim_matrix[i][j]>> \notin Range(matched_pairs)

\* C2 (as claimed): at the end every old unit is in exactly one class:
\* unit_2013 of exactly one modified entry, unit_2013 of exactly one
\* deleted entry, or silently unchanged.
C2_OldExactlyOneClass ==
  pc = "done" =>
    \A i \in OldIdx :
      Count(Cardinality(ModifiedOld(i)) = 1)
        + Count(Cardinality(DeletedOld(i)) = 1)
        + Count(SilentOld(i)) = 1

\* C3 (as claimed): at the end every new unit is in exactly one class:
\* unit_2024 of exactly one modified entry, unit_2024 of exactly one added
\* entry, or silently unchanged.
C3_NewExactlyOneClass ==
  pc = "done" =>
    \A j \in NewIdx :
      Count(Cardinality(ModifiedNew(j)) = 1)
        + Count(Cardinality(AddedNew(j)) = 1)
        + Count(SilentNew(j)) = 1

\* the old and the new corpus are the same document
IdenticalCorpora ==
  /\ n_old = n_new
  /\ \A i \in OldIdx : same_text[i][i] /\ sim_matrix[i][i] = One
  /\ \A i \in OldIdx, j \in NewIdx :
       /\ sim_matrix[i][j] = sim_matrix[j][i]
       /\ same_text[i][j] = same_text[j][i]

\* C4 (as claimed): comparing a document with itself gives an empty
\* changelog.
C4_IdenticalEmpty ==
  (pc = "done" /\ IdenticalCorpora) => mapping = <<>>

\* C5: every modified entry comes from an accepted pair whose score, the
\* matrix cell of its two units, is at least match_threshold.
C5_ModifiedAboveThreshold ==
  \A k \in Entries("modified") :
    /\ sim_matrix[mapping[k].unit_2013][mapping[k].unit_2024] >= match_threshold
    /\ \E x \in Range(matched_pairs) :
         /\ x[1] = mapping[k].unit_2013
         /\ x[2] = mapping[k].unit_2024
         /\ x[3] = sim_matrix[x[1]][x[2]]
         /\ x[3] >= match_threshold

\* C5 witness: a modified entry was emitted and a candidate pair under the
\* threshold produced none.
C5_Witness ==
  /\ pc = "done"
  /\ Entries("modified") # {}
  /\ \E x \in Range(candidate_pairs) :
       /\ x[3] < match_threshold
       /\ ModifiedOld(x[1]) = {}
       /\ ModifiedNew(x[2]) = {}

\* C6 (as claimed): no split candidate of a detected split source is the
\* unit_2024 of any added entry.
C6_SplitPiecesNeverAdded ==
  pc = "done" =>
    \A i \in DOMAIN splits : \A x \in Range(splits[i]) : AddedNew(x[1]) = {}

\* C6 (amended): a split candidate is the unit_2024 of an added entry only
\* when it is itself a detected merge target.
C6_SplitPiecesAddedOnlyAsMerge ==
  pc = "done" =>
    \A i \in DOMAIN splits : \A x \in Range(splits[i]) :
      AddedNew(x[1]) # {} => x[1] \in DOMAIN merges

\* C6 witness: a split candidate that is neither matched nor a merge target
\* ends without an added entry.
C6_Witness ==
  /\ pc = "done"
  /\ \E i \in DOMAIN splits : \E x \in Range(splits[i]) :
       /\ x[1] \notin AcceptedNew
       /\ x[1] \notin DOMAIN merges
       /\ AddedNew(x[1]) = {}

\* C7 (as claimed): a merge target has exactly one added entry and every
\* leg of the merge is the unit_2013 of a deleted entry.
C7_MergeAddedLegsDeleted ==
  pc = "done" =>
    \A j \in DOMAIN merges :
      /\ Cardinality(AddedNew(j)) = 1
      /\ \A x \in Range(merges[j]) : DeletedOld(x[1]) # {}

\* C8 (as claimed): on the solver branch no pair reaching the threshold has
\* both its units outside every accepted pair.
C8_AcceptedMaximal ==
  (pc # "start" /\ branch = "hungarian") =>
    ~ \E i \in OldIdx, j \in NewIdx :
        /\ sim_matrix[i][j] >= match_threshold
        /\ i \notin AcceptedOld
        /\ j \notin AcceptedNew

\* C8 (amended): on the solver branch no pair reaching the threshold has
\* both its units outside every candidate pair the solver returned.
C8_CandidatesMaximal ==
  (pc # "start" /\ branch = "hungarian") =>
    ~ \E i \in OldIdx, j \in NewIdx :
        /\ sim_matrix[i][j] >= match_threshold
        /\ i \notin {x[1] : x \in Range(candidate_pairs)}
        /\ j \notin {x[2] : x \in Range(candidate_pairs)}

\* C8 witness: the solver branch ran and left a pair reaching the threshold
\* with both units unaccepted, each of them paired elsewhere.
C8_Witness ==
  /\ pc = "done"
  /\ branch = "hungarian"
  /\ \E i \in OldIdx, j \in NewIdx :
       /\ sim_matrix[i][j] >= match_threshold
       /\ i \notin AcceptedOld
       /\ j \notin AcceptedNew
       /\ i \in {x[1] : x \in Range(candidate_pairs)}
       /\ j \in {x[2] : x \in Range(candidate_pairs)}

\* the block an entry of the changelog belongs to
PhaseOf(e) ==
  CASE e.change_type = "modified" -> 1
    [] e.change_type = "deleted" /\ e.unit_2013 \in DOMAIN splits -> 2
    [] e.change_type = "added" /\ e.unit_2024 \in DOMAIN merges -> 3
    [] e.change_type = "deleted" /\ e.unit_2013 \notin DOMAIN splits -> 4
    [] e.change_type = "added" /\ e.unit_2024 \notin DOMAIN merges -> 5

PhasesInOrder(m) ==
  \A a \in DOMAIN m, b \in DOMAIN m : a < b => PhaseOf(m[a]) <= PhaseOf(m[b])

IsPrefix(s, t) == Len(s) <= Len(t) /\ SubSeq(t, 1, Len(s)) = s

\* C9: every step only appends to the changelog (no re-sort) and leaves it
\* ordered by phase: modified, split deletions, merge additions, residual
\* deletions, residual additions.
C9_PhasesNeverInterleave ==
  [][IsPrefix(mapping, mapping') /\ PhasesInOrder(mapping')]_vars

\* C9 witness: a finished changelog with entries of at least three phases.
C9_Witness ==
  /\ pc = "done"
  /\ Cardinality({PhaseOf(mapping[k]) : k \in DOMAIN mapping}) >= 3

\* C10 (as claimed): the summary names the greedy fallback exactly when the
\* greedy branch produced the candidate pairs, and the solver only when
\* the solver branch ran.
C10_SummaryNamesBranch ==
  (pc = "done" /\ summary # "none") =>
    /\ (summary = "greedy") <=> (branch = "greedy")
    /\ (summary = "hungarian") => (branch = "hungarian")

\* C11: an old unit scoring below the split unit threshold and below
\* match_threshold against every new unit (so every old unit when there is
\* no new unit) is the subject of exactly one entry, a deleted one with
\* similarity 0.0, unit_2024 null and an empty after_change.
C11_UnmatchedOldDeletedOnce ==
  pc = "done" =>
    \A i \in OldIdx :
      (\A j \in NewIdx : /\ sim_matrix[i][j] < SPLIT_UNIT_THRESH
                         /\ sim_matrix[i][j] < match_threshold) =>
        LET about == {k \in DOMAIN mapping : mapping[k].unit_2013 = i}
        IN  /\ Cardinality(about) = 1
            /\ \A k \in about :
                 /\ mapping[k].change_type = "deleted"
                 /\ mapping[k].similarity = 0
                 /\ mapping[k].unit_2024 = Null
                 /\ mapping[k].after_change = EmptyText

\* C11 witness: a finished run with at least two new units, one of them
\* added, where an old unit scores low against every new unit and was
\* deleted.
C11_Witness ==
  /\ pc = "done"
  /\ \E i \in OldIdx :
       /\ \A j \in NewIdx : /\ sim_matrix[i][j] < SPLIT_UNIT_THRESH
                            /\ sim_matrix[i][j] < match_threshold
       /\ n_new >= 2
       /\ \E j \in NewIdx : AddedNew(j) # {}
       /\ DeletedOld(i) # {}

\* C13: every split source is the unit_2013 of exactly one deleted entry,
\* matched or not.
C13_SplitSourceDeletedOnce ==
  pc = "done" => \A i \in DOMAIN splits : Cardinality(DeletedOld(i)) = 1

\* C13 witness: a finished run with a split source inside an accepted pair
\* and a split source outside every accepted pair.
C13_Witness ==
  /\ pc = "done"
  /\ \E i \in DOMAIN splits : i \in AcceptedOld
  /\ \E i \in DOMAIN splits : i \notin AcceptedOld

\* the largest sum of similarities any one-to-one pairing of old and new
\* units reaches
MaxPairingSum ==
  LET sums == {SumSeq(HungarianPairsFrom(sim_matrix, n_old, n_new, p, 1), 3) :
                 p \in Assignments(Max(n_old, n_new))}
  IN  CHOOSE c \in sums : \A d \in sums : c >= d

\* C14: on the greedy branch the returned pairs are in descending
\* similarity and one-to-one, every cell of the matrix shares its row or
\* its column with a returned pair scoring at least as much (it was taken,
\* or it was skipped because an earlier pair had claimed its row or
\* column), and twice the sum of the returned similarities is at least
\* the largest sum of any one-to-one pairing.
C14_GreedyHalfApprox ==
  (pc = "detect" /\ branch = "greedy") =>
    /\ \A a \in DOMAIN candidate_pairs, b \in DOMAIN candidate_pairs :
         a < b => candidate_pairs[a][3] >= candidate_pairs[b][3]
    /\ OneToOne(candidate_pairs)
    /\ \A i \in OldIdx, j \in NewIdx :
         \E x \in Range(candidate_pairs) :
           /\ x[1] = i \/ x[2] = j
           /\ x[3] >= sim_matrix[i][j]
    /\ 2 * SumSeq(candidate_pairs, 3) >= MaxPairingSum

\* C14 witness: the greedy branch returned pairs summing to exactly half of
\* the best pairing, which is not zero.
C14_Witness ==
  /\ pc = "detect"
  /\ branch = "greedy"
  /\ MaxPairingSum > 0
  /\ 2 * SumSeq(candidate_pairs, 3) = MaxPairingSum

\* C15: the conflict test of the post-filter rejects nothing: the candidate
\* pairs are one-to-one on both branches, matched_pairs is exactly the
\* candidate pairs reaching match_threshold, in order, and no unit of a
\* candidate pair under the threshold is in an accepted pair.
C15_FilterNeverRejects ==
  pc # "start" =>
    /\ OneToOne(candidate_pairs)
    /\ matched_pairs =
         SelectSeq(candidate_pairs, LAMBDA x : x[3] >= match_threshold)
    /\ \A x \in Range(candidate_pairs) :
         x[3] < match_threshold =>
           x[1] \notin AcceptedOld /\ x[2] \notin AcceptedNew

\* C15 witness: a pair was accepted, and a unit of a candidate pair under
\* the threshold reaches the threshold with another unit yet stays
\* unaccepted.
C15_Witness ==
  /\ pc = "done"
  /\ matched_pairs # <<>>
  /\ \E x \in Range(candidate_pairs) :
       /\ x[3] < match_threshold
       /\ \E j \in NewIdx : sim_matrix[x[1]][j] >= match_threshold
       /\ x[1] \notin AcceptedOld

RECURSIVE Strip(_)
\* str.strip() on the strings of the model: blanks off both ends
Strip(t) ==
  IF t = <<>> THEN <<>>
  ELSE IF Head(t) = " " THEN Strip(Tail(t))
  ELSE IF t[Len(t)] = " " THEN Strip(SubSeq(t, 1, Len(t) - 1))
  ELSE t

\* u comes before v in document order: the article, then clause by clause
\* the clause and then its points
DocBefore(u, v) ==
  \/ u.clause_id < v.clause_id
  \/ u.clause_id = v.clause_id /\ u.point_id < v.point_id

\* C12 (as claimed): every unit extract_units returns has a text that is
\* non-empty after trimming, and the units are in document order.
C12_UnitsTrimmedNonEmptyInOrder ==
  xpc = "ret" =>
    /\ \A k \in DOMAIN units : Strip(units[k].text) # <<>>
    /\ \A a \in DOMAIN units, b \in DOMAIN units :
         a < b => DocBefore(units[a], units[b])

====
